---- MODULE Spec2Model ----
(***************************************************************************)
(* A model of the Prometheus collector plugin (prometheus/prometheus.go):  *)
(* one collection pass (CollectMetrics -> _collectMetrics) resolves the    *)
(* endpoint, fetches and parses a snapshot, decodes every requested metric *)
(* family sample by sample and appends the totals of the families named in *)
(* MultiGroupsMetricList.                                                  *)
(*                                                                         *)
(* Conventions.  Text that the code inspects character by character (the   *)
(* endpoint address, the family name) is a sequence of one-character       *)
(* strings; tag names and tag values are TLA+ strings.  A float64 that may *)
(* be NaN is a record [nan, num]; every other number is an integer.  A     *)
(* quantile fraction is given in thousandths (990 is 0.99).  Go's map      *)
(* iteration order is unspecified, so every range over a map is a choice   *)
(* among all orders of its keys.                                           *)
(***************************************************************************)
EXTENDS Integers, Sequences, FiniteSets, TLC

VARIABLES
    task,           \* the identifiers the host requests on every pass
    remote,         \* the families the endpoint currently exposes
    limit,          \* how many passes the host schedules
    pass,           \* passes started so far
    now,            \* the clock (time.Now)
    pc,             \* position of the collector inside CollectMetrics
    mts,            \* the caller's slice of requested metrics
    currentTime,    \* _collectMetrics: currentTime
    endpoint,       \* _collectMetrics: endpoint
    metricFamilies, \* _collectMetrics: metricFamilies
    idx,            \* _collectMetrics: position of the outer range loop
    item,           \* _collectMetrics: position of the range over samples
    metric,         \* _collectMetrics: the loop-local metric
    metricsBuffer,  \* _collectMetrics: metricsBuffer
    metrics,        \* _collectMetrics: metrics (its first return value)
    err,            \* the error CollectMetrics returns
    res,            \* the records CollectMetrics returns
    outcome,        \* how the current pass ended
    calls,          \* the Downloader calls made in the current pass
    emitted,        \* per processed identifier, what each append contributed
    prevMetrics,    \* metrics of the previous pass
    prevOutcome     \* outcome of the previous pass

vars == <<task, remote, limit, pass, now, pc, mts, currentTime, endpoint,
          metricFamilies, idx, item, metric, metricsBuffer, metrics, err, res,
          outcome, calls, emitted, prevMetrics, prevOutcome>>

(***************************************************************************)
(* Bounds of the model.                                                    *)
(***************************************************************************)
MaxMts == 2
MaxSamples == 3
MaxQuantiles == 2
MaxPasses == 2

(***************************************************************************)
(* Program constants.                                                      *)
(***************************************************************************)
vendor == "hyperpilot"
pluginName == "prometheus"
pluginVersion == 1
nameSpacePrefix == <<vendor, pluginName>>

Nil == [nil |-> TRUE]
NoTags == [k \in {} |-> ""]

(***************************************************************************)
(* Text as sequences of characters.                                        *)
(***************************************************************************)
MetricsPath == <<"/", "m", "e", "t", "r", "i", "c", "s">>
BytesWord == <<"b", "y", "t", "e", "s">>

\* strings.Contains(s, substr)
Contains(s, substr) ==
    \E i \in 1..(Len(s) + 1) :
        /\ i + Len(substr) - 1 <= Len(s)
        /\ \A k \in 1..Len(substr) : s[i + k - 1] = substr[k]

\* plugin.Config.GetString("endpoint"): an error when the key is not set
ConfigGetString(config, key) ==
    IF key \in DOMAIN config
    THEN [err |-> FALSE, value |-> config[key]]
    ELSE [err |-> TRUE, value |-> <<>>]

\* HTTPMetricsDownloader.GetEndpoint
GetEndpoint(config) ==
    LET r == ConfigGetString(config, "endpoint") IN
    IF r.err THEN [err |-> TRUE, address |-> <<>>]
    ELSE IF Contains(r.value, MetricsPath)
         THEN [err |-> FALSE, address |-> r.value]
         ELSE [err |-> FALSE, address |-> r.value \o MetricsPath]

(***************************************************************************)
(* The parsed snapshot: dto.MetricFamily and dto.Metric, with the nil-safe *)
(* getters the generated code gives them.                                  *)
(***************************************************************************)
\* dto.MetricType; the zero value of the enum is COUNTER
MetricTypes == {"COUNTER", "GAUGE", "SUMMARY"}

\* (*dto.MetricFamily).GetName
GetName(metricFamily) == IF metricFamily = Nil THEN <<>> ELSE metricFamily.name

\* (*dto.MetricFamily).GetType
GetType(metricFamily) == IF metricFamily = Nil THEN "COUNTER" ELSE metricFamily.type

\* (*dto.MetricFamily).GetHelp
GetHelp(metricFamily) == IF metricFamily = Nil THEN "" ELSE metricFamily.help

\* (*dto.MetricFamily).GetMetric
GetMetric(metricFamily) == IF metricFamily = Nil THEN <<>> ELSE metricFamily.metric

\* math.IsNaN
IsNaN(f) == f.nan

\* int(quantile.GetQuantile()*100) for a fraction given in thousandths.  The
\* product is a float64: among the fractions 0.000 to 1.000 it falls just
\* below the integer for 0.29, 0.57 and 0.58 (28.999999999999996,
\* 56.99999999999999, 57.99999999999999) and the conversion truncates it to
\* the integer below; for every other fraction it truncates as expected.
IntPercent(thousandths) ==
    IF thousandths \in {290, 570, 580}
    THEN (thousandths \div 10) - 1
    ELSE thousandths \div 10

\* fmt.Sprintf("quantile_%d", n)
QuantileKey(n) == "quantile_" \o ToString(n)

\* m[k] = v on a Go map
MapPut(m, k, v) == [x \in (DOMAIN m) \cup {k} |-> IF x = k THEN v ELSE m[x]]

\* getTagsOfMetric: the labels of the sample, in order, into a fresh map
RECURSIVE TagsFrom(_, _, _)
TagsFrom(tags, label, k) ==
    IF k > Len(label) THEN tags
    ELSE TagsFrom(MapPut(tags, label[k].name, label[k].value), label, k + 1)

getTagsOfMetric(metricItem) == TagsFrom(NoTags, metricItem.label, 1)

\* processSummaryMetric: the loop over the quantiles of the sample
RECURSIVE SummaryFrom(_, _, _)
SummaryFrom(summary, quantile, k) ==
    IF k > Len(quantile) THEN summary
    ELSE LET key == QuantileKey(IntPercent(quantile[k].quantile)) IN
         IF ~IsNaN(quantile[k].value)
         THEN SummaryFrom(MapPut(summary, key, quantile[k].value.num), quantile, k + 1)
         ELSE SummaryFrom(summary, quantile, k + 1)

\* processSummaryMetric: the map from "count", "sum" and the quantile keys to
\* their values
processSummaryMetric(metricItem) ==
    SummaryFrom(MapPut(MapPut(NoTags, "count", metricItem.summary.sample_count),
                       "sum", metricItem.summary.sample_sum),
                metricItem.summary.quantile, 1)

\* The orders in which a range over a map with key set S may visit its keys
IterationOrders(S) ==
    {o \in [1..Cardinality(S) -> S] : \A i, j \in 1..Cardinality(S) : i # j => o[i] # o[j]}

\* The orders the range at line 361 may take for one sample of the family;
\* the other types range over no map
SampleOrders(metricFamily, metricItem) ==
    IF GetType(metricFamily) = "SUMMARY"
    THEN IterationOrders(DOMAIN processSummaryMetric(metricItem))
    ELSE {<<>>}

\* The range over summaryData (lines 361-367), the keys visited in `order`
RECURSIVE SummaryAppend(_, _, _, _, _)
SummaryAppend(st, metricItem, summaryData, order, k) ==
    IF k > Len(order) THEN st
    ELSE LET tags == MapPut(getTagsOfMetric(metricItem), "summary", order[k])
             m == [st.metric EXCEPT !.Tags = tags, !.Data = summaryData[order[k]]]
         IN SummaryAppend([metric |-> m, buffer |-> Append(st.buffer, m)],
                          metricItem, summaryData, order, k + 1)

\* One iteration of the range over the samples of the family (lines 340-370)
DecodeItem(st, metricFamily, metricItem, order) ==
    CASE GetType(metricFamily) = "GAUGE" ->
            LET m == [st.metric EXCEPT
                        !.Unit = IF Contains(GetName(metricFamily), BytesWord)
                                 THEN "B" ELSE @,
                        !.Data = metricItem.gauge.value,
                        !.Tags = getTagsOfMetric(metricItem)]
            IN [metric |-> m, buffer |-> Append(st.buffer, m)]
      [] GetType(metricFamily) = "COUNTER" ->
            LET m == [st.metric EXCEPT
                        !.Data = metricItem.counter.value,
                        !.Tags = getTagsOfMetric(metricItem)]
            IN [metric |-> m, buffer |-> Append(st.buffer, m)]
      [] GetType(metricFamily) = "SUMMARY" ->
            SummaryAppend(st, metricItem, processSummaryMetric(metricItem), order, 1)
      [] OTHER -> st

\* A variant of SumData that starts at the second record of the buffer
RECURSIVE SumDataFromSecond(_, _)
SumDataFromSecond(buffer, k) ==
    IF k <= 1 THEN 0 ELSE SumDataFromSecond(buffer, k - 1) + buffer[k].Data

\* totalCount += collectedMetric.Data.(float64) over the buffer (lines 378-380)
RECURSIVE SumData(_, _)
SumData(buffer, k) ==
    IF k = 0 THEN 0 ELSE SumData(buffer, k - 1) + buffer[k].Data

\* collectedMetric.Tags["summary"]: the empty string when the key is not set
TagOf(tags, key) == IF key \in DOMAIN tags THEN tags[key] ELSE ""

\* A variant of SumTagged that adds every record, whatever its tag
RECURSIVE SumTaggedAll(_, _, _)
SumTaggedAll(buffer, which, k) ==
    IF k = 0 THEN 0 ELSE SumTaggedAll(buffer, which, k - 1) + buffer[k].Data

\* The sum over the records of the buffer whose "summary" tag is `which`
\* (lines 387-394)
RECURSIVE SumTagged(_, _, _)
SumTagged(buffer, which, k) ==
    IF k = 0 THEN 0
    ELSE SumTagged(buffer, which, k - 1)
         + (IF TagOf(buffer[k].Tags, "summary") = which THEN buffer[k].Data ELSE 0)

\* The body of the range over MultiGroupsMetricList for one matching entry
\* (lines 374-408)
AppendTotals(st, metricFamily) ==
    CASE GetType(metricFamily) = "COUNTER" ->
            LET m == [st.metric EXCEPT !.Data = SumData(st.buffer, Len(st.buffer)),
                                       !.Tags = [total |-> "TOTAL"]]
            IN [metric |-> m, buffer |-> Append(st.buffer, m)]
      [] GetType(metricFamily) = "SUMMARY" ->
            LET totalCount == SumTagged(st.buffer, "count", Len(st.buffer))
                totalSum == SumTagged(st.buffer, "sum", Len(st.buffer))
                m1 == [st.metric EXCEPT !.Data = totalCount,
                                        !.Tags = [total |-> "TOTAL", summary |-> "count"]]
                m2 == [m1 EXCEPT !.Data = totalSum,
                                 !.Tags = [total |-> "TOTAL", summary |-> "sum"]]
            IN [metric |-> m2, buffer |-> Append(Append(st.buffer, m1), m2)]
      [] OTHER -> st

\* The range over MultiGroupsMetricList (lines 372-410)
RECURSIVE Aggregate(_, _, _, _)
Aggregate(st, metricFamily, list, k) ==
    IF k > Len(list) THEN st
    ELSE IF list[k] = GetName(metricFamily)
         THEN Aggregate(AppendTotals(st, metricFamily), metricFamily, list, k + 1)
         ELSE Aggregate(st, metricFamily, list, k + 1)

\* A variant of LookupFamily that answers an empty family for a missing name
LookupFamilyOrEmpty(families, ns) ==
    IF ns[Len(ns)] \in DOMAIN families THEN families[ns[Len(ns)]]
    ELSE [name |-> ns[Len(ns)], type |-> "COUNTER", help |-> "", metric |-> <<>>]

\* metricFamilies[ns[len(ns)-1]]: nil when the snapshot has no such family
LookupFamily(families, ns) ==
    IF ns[Len(ns)] \in DOMAIN families THEN families[ns[Len(ns)]] ELSE Nil

\* The loop-local metric as lines 330-336 set it
NewMetric(metricFamily, ns, time) ==
    [Type |-> GetType(metricFamily),
     Namespace |-> ns,
     Timestamp |-> time,
     Description |-> GetHelp(metricFamily),
     Version |-> pluginVersion,
     Unit |-> "",
     Data |-> 0,
     Tags |-> NoTags]

\* A variant of EndpointConfig that reads the last identifier
LastConfig(m) == m[Len(m)].Config

\* mts[0].Config, the configuration the endpoint is resolved from (line 314)
EndpointConfig(m) == m[1].Config

\* A variant of collect that passes on the empty map parseMetrics returns
\* with its error
collectIgnoringParseError(status, wellFormed, families) ==
    IF status # "200" THEN [err |-> TRUE, families |-> Nil]
    ELSE IF ~wellFormed THEN [err |-> FALSE, families |-> NoTags]
    ELSE [err |-> FALSE, families |-> families]

\* collect: the families, or an error when the download or the parse fails
collect(status, wellFormed, families) ==
    IF status # "200" THEN [err |-> TRUE, families |-> Nil]
    ELSE IF ~wellFormed THEN [err |-> TRUE, families |-> Nil]
    ELSE [err |-> FALSE, families |-> families]

\* A variant of IsEmptyRequest that never holds
IsNegativeLength(m) == Len(m) < 0

\* len(mts) == 0 (line 310)
IsEmptyRequest(m) == Len(m) = 0

\* _cache: the records handed to the host, the family type dropped
CacheRecord(m) ==
    [Namespace |-> m.Namespace, Timestamp |-> m.Timestamp,
     Description |-> m.Description, Version |-> m.Version, Unit |-> m.Unit,
     Data |-> m.Data, Tags |-> m.Tags]

\* _cache: what the call may answer, the records or an error
_cache(ms) ==
    {[err |-> FALSE, res |-> [i \in 1..Len(ms) |-> CacheRecord(ms[i])]],
     [err |-> TRUE, res |-> <<>>]}

\* The errors _collectMetrics itself returns (lines 311, 316)
CollectMetricsErrors == {"array of metric type is empty", "Unable to get endpoint"}

(***************************************************************************)
(* The inputs: what the host requests and what the endpoint exposes.       *)
(***************************************************************************)
\* Family names: the first is in MultiGroupsMetricList, the second is not
ReqsName == <<"r", "e", "q", "s">>
RxBytesName == <<"r", "x", "_", "b", "y", "t", "e", "s">>
JobsName == <<"j", "o", "b", "s">>
FamilyNames == {ReqsName, RxBytesName}

\* The configured multi-group family names
MultiGroupsMetricList == <<ReqsName, JobsName>>

\* Endpoint addresses: a host followed by up to two path fragments
HostText == <<"h">>
PathFragments == {<<>>, MetricsPath, <<"/", "v">>, <<"/", "m">>}
Addresses == {HostText \o a \o b : a, b \in PathFragments}
DefaultAddress == HostText \o MetricsPath

\* plugin.Config with and without the "endpoint" key
ConfigOf(address) == [endpoint |-> address]
Configs == {NoTags} \cup {ConfigOf(a) : a \in Addresses}

\* A requested plugin.Metric: the namespace prefix, then the family name
Identifier(name, config) ==
    [Namespace |-> nameSpacePrefix \o <<name>>, Config |-> config, Timestamp |-> 0]

\* The labels of the sample at position j; the even positions carry a label
\* named "summary" too
LabelsAt(j) ==
    IF j % 2 = 0
    THEN <<[name |-> "instance", value |-> ToString(j)],
           [name |-> "summary", value |-> "all"]>>
    ELSE <<[name |-> "instance", value |-> ToString(j)]>>

NaN == [nan |-> TRUE, num |-> 0]
Float(n) == [nan |-> FALSE, num |-> n]

\* Values of gauge and counter samples
SampleValues == {1, 3, 4}

\* The quantiles a summary sample may carry: 0.29, 0.99 and 0.999 (the last
\* two print as quantile_99), one of them with the value NaN
QuantileChoices ==
    {[quantile |-> 290, value |-> Float(1)],
     [quantile |-> 990, value |-> Float(2)],
     [quantile |-> 999, value |-> Float(3)],
     [quantile |-> 999, value |-> NaN]}

SeqsUpTo(S, n) == UNION {[1..k -> S] : k \in 0..n}

\* The quantile lists of up to n quantiles with distinct fractions
QuantileLists(n) ==
    {q \in SeqsUpTo(QuantileChoices, n) :
        \A a, b \in 1..Len(q) : a # b => q[a].quantile # q[b].quantile}

\* dto.Metric of a family of the given type
Sample(type, j, value, quantile) ==
    [label |-> LabelsAt(j),
     gauge |-> [value |-> IF type = "GAUGE" THEN value ELSE 0],
     counter |-> [value |-> IF type = "COUNTER" THEN value ELSE 0],
     summary |-> [sample_count |-> IF type = "SUMMARY" THEN 5 * j ELSE 0,
                  sample_sum |-> IF type = "SUMMARY" THEN 20 * j + value ELSE 0,
                  quantile |-> IF type = "SUMMARY" THEN quantile ELSE <<>>]]

Family(name, type, samples) ==
    [name |-> name, type |-> type, help |-> "help", metric |-> samples]

\* Gauge and counter families: up to MaxSamples samples with any values
ValueFamilies(name) ==
    {Family(name, type, [j \in 1..Len(vs) |-> Sample(type, j, vs[j], <<>>)]) :
        type \in {"GAUGE", "COUNTER"}, vs \in SeqsUpTo(SampleValues, MaxSamples)}

\* Summary families: up to MaxSamples samples that share the quantile
\* objectives; several samples with at most one quantile each, or one sample
\* with up to MaxQuantiles quantiles
SummaryFamilies(name) ==
    {Family(name, "SUMMARY", [j \in 1..n |-> Sample("SUMMARY", j, 1, qs)]) :
        n \in 0..MaxSamples,
        qs \in {q \in QuantileLists(MaxQuantiles) : Len(q) <= 1}}
    \cup
    {Family(name, "SUMMARY", <<Sample("SUMMARY", 1, 1, qs)>>) :
        qs \in QuantileLists(MaxQuantiles)}

\* One family of each type with a single sample
SingleSampleFamilies(name) ==
    {Family(name, type, <<Sample(type, 1, 3, <<>>)>>) : type \in MetricTypes}

\* Snapshots that expose any subset of the names, one family per name
SnapshotsOf(families) ==
    UNION {{f \in [S -> families] : \A n \in S : f[n].name = n} :
              S \in SUBSET FamilyNames}

\* One requested family with many samples, collected once
FamilyScenariosOf(name) ==
    {[task |-> <<Identifier(name, ConfigOf(DefaultAddress))>>,
      remote |-> [n \in {name} |-> fam],
      limit |-> 1] :
        fam \in ValueFamilies(name) \cup SummaryFamilies(name)}

FamilyScenarios == UNION {FamilyScenariosOf(name) : name \in FamilyNames}

\* Several requested families, present or absent, collected MaxPasses times
RepeatScenarios ==
    {[task |-> t, remote |-> r, limit |-> MaxPasses] :
        t \in SeqsUpTo({Identifier(n, ConfigOf(DefaultAddress)) : n \in FamilyNames},
                       MaxMts),
        r \in SnapshotsOf(UNION {SingleSampleFamilies(n) : n \in FamilyNames})}

\* A gauge and a counter family with MaxSamples samples, and a summary
\* family with one sample and one quantile
FullFamilies(name) ==
    {Family(name, type, [j \in 1..MaxSamples |-> Sample(type, j, j, <<>>)]) :
        type \in {"GAUGE", "COUNTER"}}
    \cup
    {Family(name, "SUMMARY",
            <<Sample("SUMMARY", 1, 1, <<[quantile |-> 990, value |-> Float(2)]>>)>>)}

\* Several requested families with several samples each, collected once
PipelineScenarios ==
    {[task |-> t, remote |-> r, limit |-> 1] :
        t \in SeqsUpTo({Identifier(n, ConfigOf(DefaultAddress)) : n \in FamilyNames},
                       MaxMts),
        r \in SnapshotsOf(UNION {FullFamilies(n) : n \in FamilyNames})}

\* Requests whose identifiers carry any configuration, collected once
ConfigScenarios ==
    {[task |-> t,
      remote |-> [n \in {RxBytesName} |->
                    Family(n, "GAUGE", <<Sample("GAUGE", 1, 1, <<>>)>>)],
      limit |-> 1] :
        t \in SeqsUpTo({Identifier(RxBytesName, c) : c \in Configs}, MaxMts)}

Scenarios ==
    FamilyScenarios \cup PipelineScenarios \cup RepeatScenarios \cup ConfigScenarios

\* What the download may answer: no connection, or an HTTP status
HTTPOutcomes == {"unreachable", "200", "500"}

\* What the endpoint answered to one download: nothing, an error status, a
\* body the parser rejects, or the families
Answer(status, wellFormed) ==
    IF status = "unreachable" THEN "unreachable"
    ELSE IF status # "200" THEN "status"
    ELSE IF ~wellFormed THEN "malformed"
    ELSE "families"

(***************************************************************************)
(* The collector.                                                          *)
(***************************************************************************)
Init ==
    /\ \E sc \in Scenarios :
        /\ task = sc.task
        /\ remote = sc.remote
        /\ limit = sc.limit
    /\ pass = 0
    /\ now = 0
    /\ pc = "idle"
    /\ mts = <<>>
    /\ currentTime = 0
    /\ endpoint = <<>>
    /\ metricFamilies = Nil
    /\ idx = 0
    /\ item = 0
    /\ metric = Nil
    /\ metricsBuffer = <<>>
    /\ metrics = <<>>
    /\ err = "nil"
    /\ res = <<>>
    /\ outcome = "none"
    /\ calls = <<>>
    /\ emitted = <<>>
    /\ prevMetrics = <<>>
    /\ prevOutcome = "none"

\* CollectMetrics is called: _collectMetrics starts (lines 305-312)
CollectMetrics ==
    /\ pc \in {"idle", "returned"}
    /\ pass < limit
    /\ pass' = pass + 1
    /\ now' = now + 1
    /\ prevMetrics' = metrics
    /\ prevOutcome' = outcome
    /\ mts' = task
    /\ currentTime' = now + 1
    /\ metrics' = <<>>
    /\ calls' = <<>>
    /\ emitted' = <<>>
    /\ endpoint' = <<>>
    /\ metricFamilies' = Nil
    /\ idx' = 0
    /\ item' = 0
    /\ metric' = Nil
    /\ metricsBuffer' = <<>>
    /\ IF IsEmptyRequest(task)
       THEN /\ err' = "array of metric type is empty"
            /\ res' = task
            /\ outcome' = "error"
            /\ pc' = "returned"
       ELSE /\ err' = "nil"
            /\ res' = <<>>
            /\ outcome' = "running"
            /\ pc' = "GetEndpoint"
    /\ UNCHANGED <<task, remote, limit>>

\* c.Downloader.GetEndpoint(mts[0].Config) (lines 314-317)
ResolveEndpoint ==
    /\ pc = "GetEndpoint"
    /\ LET r == GetEndpoint(EndpointConfig(mts)) IN
        /\ calls' = Append(calls, [fn |-> "GetEndpoint", arg |-> EndpointConfig(mts),
                                   answer |-> IF r.err THEN "error" ELSE "address"])
        /\ IF r.err
           THEN /\ err' = "Unable to get endpoint"
                /\ res' = mts
                /\ outcome' = "error"
                /\ pc' = "returned"
                /\ UNCHANGED endpoint
           ELSE /\ endpoint' = r.address
                /\ pc' = "collect"
                /\ UNCHANGED <<err, res, outcome>>
    /\ UNCHANGED <<task, remote, limit, pass, now, mts, currentTime, metricFamilies,
                   idx, item, metric, metricsBuffer, metrics, emitted, prevMetrics,
                   prevOutcome>>

\* c.collect(endpoint): the download and the parse (lines 319-323, 508-518)
Collect ==
    /\ pc = "collect"
    /\ \E status \in HTTPOutcomes, wellFormed \in BOOLEAN :
        LET r == collect(status, wellFormed, remote) IN
        /\ calls' = Append(calls, [fn |-> "GetMetricsReader", arg |-> endpoint,
                                   answer |-> Answer(status, wellFormed)])
        /\ IF r.err
           THEN /\ outcome' = "skipped"
                /\ pc' = "_cache"
                /\ UNCHANGED <<metricFamilies, idx>>
           ELSE /\ metricFamilies' = r.families
                /\ idx' = 1
                /\ pc' = "range"
                /\ UNCHANGED outcome
    /\ UNCHANGED <<task, remote, limit, pass, now, mts, currentTime, endpoint, item,
                   metric, metricsBuffer, metrics, err, res, emitted, prevMetrics,
                   prevOutcome>>

\* The head of one iteration of the range over mts (lines 325-338)
RangeMetric ==
    /\ pc = "range"
    /\ idx <= Len(mts)
    /\ LET ns == mts[idx].Namespace
           metricFamily == LookupFamily(metricFamilies, ns)
       IN /\ mts' = [mts EXCEPT ![idx].Timestamp = currentTime]
          /\ metric' = NewMetric(metricFamily, ns, currentTime)
    /\ metricsBuffer' = <<>>
    /\ item' = 1
    /\ emitted' = Append(emitted, [decoded |-> <<>>, totals |-> <<>>])
    /\ pc' = "decode"
    /\ UNCHANGED <<task, remote, limit, pass, now, currentTime, endpoint,
                   metricFamilies, idx, metrics, err, res, outcome, calls,
                   prevMetrics, prevOutcome>>

\* One iteration of the range over the samples of the family (lines 340-370)
DecodeSample ==
    /\ pc = "decode"
    /\ LET metricFamily == LookupFamily(metricFamilies, mts[idx].Namespace) IN
        /\ item <= Len(GetMetric(metricFamily))
        /\ \E order \in SampleOrders(metricFamily, GetMetric(metricFamily)[item]) :
            LET st == DecodeItem([metric |-> metric, buffer |-> metricsBuffer],
                                 metricFamily, GetMetric(metricFamily)[item], order)
            IN /\ metric' = st.metric
               /\ metricsBuffer' = st.buffer
               /\ emitted' = [emitted EXCEPT ![idx].decoded =
                                Append(@, SubSeq(st.buffer, Len(metricsBuffer) + 1,
                                                 Len(st.buffer)))]
    /\ item' = item + 1
    /\ UNCHANGED <<task, remote, limit, pass, now, pc, mts, currentTime, endpoint,
                   metricFamilies, idx, metrics, err, res, outcome, calls,
                   prevMetrics, prevOutcome>>

\* After the last sample: the totals and the copy into metrics (lines 372-414)
AggregateFamily ==
    /\ pc = "decode"
    /\ LET metricFamily == LookupFamily(metricFamilies, mts[idx].Namespace) IN
        /\ item > Len(GetMetric(metricFamily))
        /\ LET st == Aggregate([metric |-> metric, buffer |-> metricsBuffer],
                               metricFamily, MultiGroupsMetricList, 1)
           IN /\ metric' = st.metric
              /\ metricsBuffer' = st.buffer
              /\ metrics' = metrics \o st.buffer
              /\ emitted' = [emitted EXCEPT ![idx].totals =
                               SubSeq(st.buffer, Len(metricsBuffer) + 1, Len(st.buffer))]
    /\ idx' = idx + 1
    /\ pc' = "range"
    /\ UNCHANGED <<task, remote, limit, pass, now, mts, currentTime, endpoint,
                   metricFamilies, item, err, res, outcome, calls, prevMetrics,
                   prevOutcome>>

\* The range over mts is over: _collectMetrics returns metrics and no error
\* (line 416)
Return ==
    /\ pc = "range"
    /\ idx > Len(mts)
    /\ outcome' = "ok"
    /\ pc' = "_cache"
    /\ UNCHANGED <<task, remote, limit, pass, now, mts, currentTime, endpoint,
                   metricFamilies, idx, item, metric, metricsBuffer, metrics, err,
                   res, emitted, calls, prevMetrics, prevOutcome>>

\* _collectMetrics returned no error: CollectMetrics hands the records to
\* _cache and returns its records, or the request and its error
\* (lines 428-437)
Cache ==
    /\ pc = "_cache"
    /\ \E r \in _cache(metrics) :
        IF r.err
        THEN /\ res' = mts
             /\ err' = "_cache failed"
        ELSE /\ res' = r.res
             /\ err' = "nil"
    /\ pc' = "returned"
    /\ UNCHANGED <<task, remote, limit, pass, now, mts, currentTime, endpoint,
                   metricFamilies, idx, item, metric, metricsBuffer, metrics,
                   outcome, emitted, calls, prevMetrics, prevOutcome>>

Next ==
    \/ CollectMetrics
    \/ ResolveEndpoint
    \/ Collect
    \/ RangeMetric
    \/ DecodeSample
    \/ AggregateFamily
    \/ Return
    \/ Cache

Spec == Init /\ [][Next]_vars

(***************************************************************************)
(* Vocabulary of the properties: the request and the snapshot as given,    *)
(* and what the pass has appended for each identifier.                     *)
(***************************************************************************)
\* The family name the i-th requested identifier ends with
RequestedName(i) == task[i].Namespace[Len(task[i].Namespace)]

\* Whether the snapshot holds the family the i-th identifier names
Present(i) == RequestedName(i) \in DOMAIN remote

RequestedFamily(i) == remote[RequestedName(i)]

InMultiGroups(name) ==
    \E k \in 1..Len(MultiGroupsMetricList) : MultiGroupsMetricList[k] = name

\* The identifiers the current pass has finished with
Done(i) == i \in 1..Len(emitted) /\ i < idx

RECURSIVE Flatten(_)
Flatten(ss) == IF ss = <<>> THEN <<>> ELSE Head(ss) \o Flatten(Tail(ss))

RECURSIVE SumOf(_)
SumOf(ns) == IF ns = <<>> THEN 0 ELSE Head(ns) + SumOf(Tail(ns))

\* The per-sample records of the i-th identifier, and all its records
Decoded(i) == Flatten(emitted[i].decoded)
Segment(i) == Decoded(i) \o emitted[i].totals

DataOf(rs) == [k \in 1..Len(rs) |-> rs[k].Data]
Select(rs, which) == SelectSeq(rs, LAMBDA r : TagOf(r.Tags, "summary") = which)

\* metrics is the segments of the finished identifiers, in request order
SegmentsInMetrics ==
    metrics = Flatten([i \in 1..Cardinality({k \in 1..Len(emitted) : Done(k)})
                          |-> Segment(i)])

\* The quantiles of a sample whose value is not NaN
NonNaN(quantile) == SelectSeq(quantile, LAMBDA q : ~q.value.nan)

\* C1: every summary sample of a requested family yields exactly one record
\* tagged summary="count", one tagged summary="sum" and one record per
\* quantile whose value is not NaN.
C1_OneRecordPerQuantile ==
    \A i \in 1..Len(emitted) :
        (Present(i) /\ RequestedFamily(i).type = "SUMMARY") =>
            \A j \in 1..Len(emitted[i].decoded) :
                LET recs == emitted[i].decoded[j]
                    sample == RequestedFamily(i).metric[j]
                IN /\ Len(Select(recs, "count")) = 1
                   /\ Len(Select(recs, "sum")) = 1
                   /\ Len(recs) = 2 + Len(NonNaN(sample.summary.quantile))

\* C2: a requested counter family of MultiGroupsMetricList gets exactly one
\* total record, tagged {"total": "TOTAL"}, whose value is the sum of the
\* values of the per-sample records of the family; a counter family outside
\* the list gets none.
C2_CounterTotal ==
    /\ SegmentsInMetrics
    /\ \A i \in 1..Len(emitted) :
        (Done(i) /\ Present(i) /\ RequestedFamily(i).type = "COUNTER") =>
            IF InMultiGroups(RequestedName(i))
            THEN /\ Len(emitted[i].totals) = 1
                 /\ emitted[i].totals[1].Tags = [total |-> "TOTAL"]
                 /\ emitted[i].totals[1].Data = SumOf(DataOf(Decoded(i)))
                 /\ emitted[i].totals[1].Data =
                        SumOf([j \in 1..Len(RequestedFamily(i).metric) |->
                                  RequestedFamily(i).metric[j].counter.value])
            ELSE emitted[i].totals = <<>>

C2_Witness ==
    \E i \in 1..Len(emitted) :
        /\ Done(i) /\ Present(i) /\ RequestedFamily(i).type = "COUNTER"
        /\ InMultiGroups(RequestedName(i))
        /\ Len(RequestedFamily(i).metric) = MaxSamples
        /\ Len(emitted[i].totals) = 1
        /\ emitted[i].totals[1].Data = SumOf(DataOf(Decoded(i)))
        /\ emitted[i].totals[1].Data > Decoded(i)[1].Data
        /\ pc = "returned"

\* C3: a requested summary family of MultiGroupsMetricList gets exactly two
\* total records: the sum of the records tagged summary="count" and the sum
\* of the records tagged summary="sum"; quantile records count in neither and
\* no total carries a quantile tag.
C3_SummaryTotals ==
    /\ SegmentsInMetrics
    /\ \A i \in 1..Len(emitted) :
        (/\ Done(i) /\ Present(i) /\ RequestedFamily(i).type = "SUMMARY"
         /\ InMultiGroups(RequestedName(i))) =>
            /\ Len(emitted[i].totals) = 2
            /\ emitted[i].totals[1].Tags = [total |-> "TOTAL", summary |-> "count"]
            /\ emitted[i].totals[2].Tags = [total |-> "TOTAL", summary |-> "sum"]
            /\ emitted[i].totals[1].Data = SumOf(DataOf(Select(Decoded(i), "count")))
            /\ emitted[i].totals[2].Data = SumOf(DataOf(Select(Decoded(i), "sum")))
            /\ emitted[i].totals[1].Data =
                   SumOf([j \in 1..Len(RequestedFamily(i).metric) |->
                             RequestedFamily(i).metric[j].summary.sample_count])
            /\ emitted[i].totals[2].Data =
                   SumOf([j \in 1..Len(RequestedFamily(i).metric) |->
                             RequestedFamily(i).metric[j].summary.sample_sum])

C3_Witness ==
    \E i \in 1..Len(emitted) :
        /\ Done(i) /\ Present(i) /\ RequestedFamily(i).type = "SUMMARY"
        /\ InMultiGroups(RequestedName(i))
        /\ Len(RequestedFamily(i).metric) = MaxSamples
        /\ Len(Decoded(i)) > 2 * MaxSamples
        /\ Len(emitted[i].totals) = 2
        /\ emitted[i].totals[1].Data = SumOf(DataOf(Select(Decoded(i), "count")))
        /\ pc = "returned"

\* C4: a pass called with no identifier fails with an error and calls
\* neither GetEndpoint nor GetMetricsReader.
C4_EmptyRequestFails ==
    (pass > 0 /\ Len(task) = 0) =>
        /\ pc = "returned"
        /\ outcome = "error"
        /\ err # "nil"
        /\ calls = <<>>
        /\ res = task

C4_Witness == pass > 0 /\ Len(task) = 0 /\ pc = "returned" /\ err # "nil"

\* The download of the current pass failed or its body did not parse
CollectFailed ==
    /\ Len(calls) = 2
    /\ calls[2].fn = "GetMetricsReader"
    /\ calls[2].answer \in {"unreachable", "status", "malformed"}

\* C5: when the endpoint resolves but the download fails or the body does not
\* parse, _collectMetrics returns no record and no error (control is at the
\* call of _cache, or past it) and leaves the requested identifiers as they
\* were (no timestamp is written).
C5_CollectFailureSkips ==
    CollectFailed =>
        /\ pc \in {"_cache", "returned"}
        /\ outcome = "skipped"
        /\ metrics = <<>>
        /\ err \notin CollectMetricsErrors
        /\ mts = task

C5_Witness ==
    /\ CollectFailed /\ calls[2].answer = "malformed"
    /\ pc = "_cache" /\ Len(task) = MaxMts /\ metrics = <<>> /\ mts = task

\* The records one sample of a family yields, as (tags, value) pairs
ExpectedOfSample(family, sample) ==
    CASE family.type = "GAUGE" ->
            {<<getTagsOfMetric(sample), sample.gauge.value>>}
      [] family.type = "COUNTER" ->
            {<<getTagsOfMetric(sample), sample.counter.value>>}
      [] family.type = "SUMMARY" ->
            {<<MapPut(getTagsOfMetric(sample), "summary", key),
               processSummaryMetric(sample)[key]>> :
                key \in DOMAIN processSummaryMetric(sample)}

\* C6: in a pass whose download and parse succeed, an identifier whose family
\* the snapshot lacks contributes no record and no error, and every other
\* identifier contributes the records of its own family, whatever precedes or
\* follows it.
C6_AbsentFamilySkipped ==
    /\ SegmentsInMetrics
    /\ (pc \in {"_cache", "returned"} /\ outcome = "ok") =>
        (err \notin CollectMetricsErrors /\ Len(emitted) = Len(task))
    /\ \A i \in 1..Len(emitted) :
        /\ ~Present(i) => emitted[i] = [decoded |-> <<>>, totals |-> <<>>]
        /\ (Present(i) /\ Done(i)) =>
            /\ Len(emitted[i].decoded) = Len(RequestedFamily(i).metric)
            /\ \A j \in 1..Len(emitted[i].decoded) :
                {<<r.Tags, r.Data>> : r \in {emitted[i].decoded[j][k] :
                                               k \in 1..Len(emitted[i].decoded[j])}}
                    = ExpectedOfSample(RequestedFamily(i), RequestedFamily(i).metric[j])
            /\ \A k \in 1..Len(Segment(i)) :
                /\ Segment(i)[k].Namespace = task[i].Namespace
                /\ Segment(i)[k].Type = RequestedFamily(i).type
                /\ Segment(i)[k].Description = RequestedFamily(i).help
                /\ Segment(i)[k].Timestamp = currentTime

C6_Witness ==
    /\ pc = "returned" /\ outcome = "ok" /\ Len(task) = MaxMts
    /\ ~Present(1) /\ Present(MaxMts)
    /\ emitted[1] = [decoded |-> <<>>, totals |-> <<>>]
    /\ Len(Segment(MaxMts)) > 0
    /\ metrics = Segment(MaxMts)

\* Whether the text s ends with the text suffix
HasSuffix(s, suffix) ==
    /\ Len(suffix) <= Len(s)
    /\ \A k \in 1..Len(suffix) : s[Len(s) - Len(suffix) + k] = suffix[k]

\* C7: the resolved endpoint ends with "/metrics": the configured address
\* itself when it ends with "/metrics", and the address followed by
\* "/metrics" otherwise.
C7_EndpointEndsWithMetrics ==
    (pc = "collect") =>
        LET address == task[1].Config.endpoint IN
        /\ HasSuffix(endpoint, MetricsPath)
        /\ endpoint = IF HasSuffix(address, MetricsPath)
                      THEN address ELSE address \o MetricsPath

\* The keys of the quantiles of a sample whose value is not NaN, in the order
\* of the sample
QuantileTags(sample) ==
    LET qs == NonNaN(sample.summary.quantile) IN
    [k \in 1..Len(qs) |-> QuantileKey(IntPercent(qs[k].quantile))]

\* C8: the returned records follow the request order, then the sample order,
\* then, within one summary sample, count, sum and the quantiles in the order
\* of the sample; the totals of a family follow its per-sample records.
C8_RecordOrder ==
    (pc = "returned" /\ outcome = "ok") =>
        /\ SegmentsInMetrics
        /\ \A i \in 1..Len(emitted) :
            (Present(i) /\ RequestedFamily(i).type = "SUMMARY") =>
                \A j \in 1..Len(emitted[i].decoded) :
                    [k \in 1..Len(emitted[i].decoded[j]) |->
                        emitted[i].decoded[j][k].Tags["summary"]]
                    = <<"count", "sum">> \o QuantileTags(RequestedFamily(i).metric[j])

\* A record without its timestamp
Untimed(rs) == [k \in 1..Len(rs) |-> [rs[k] EXCEPT !.Timestamp = 0]]

\* C9: two passes in a row over the same identifiers and the same snapshot
\* return sequences equal position by position in identifier, tags and value.
C9_SameRecordsTwice ==
    (pc = "returned" /\ outcome = "ok" /\ prevOutcome = "ok") =>
        Untimed(metrics) = Untimed(prevMetrics)

\* C10: a pass makes at most one endpoint resolution and at most one
\* download, both from the configuration of the first identifier, the
\* download only after the resolution succeeded, and decodes every
\* identifier from the one snapshot downloaded.
C10_OneFetchFirstConfig ==
    /\ Len(calls) <= 2
    /\ Len(calls) >= 1 =>
        /\ calls[1].fn = "GetEndpoint"
        /\ calls[1].arg = task[1].Config
    /\ Len(calls) = 2 =>
        /\ calls[2].fn = "GetMetricsReader"
        /\ calls[1].answer = "address"
        /\ "endpoint" \in DOMAIN task[1].Config
        /\ calls[2].arg \in {task[1].Config.endpoint,
                             task[1].Config.endpoint \o MetricsPath}
    /\ pc \in {"range", "decode"} =>
        /\ Len(calls) = 2
        /\ calls[2].answer = "families"
        /\ metricFamilies = remote
    /\ \A i \in 1..Len(emitted) :
        Done(i) => Len(emitted[i].decoded) =
                      IF Present(i) THEN Len(RequestedFamily(i).metric) ELSE 0

C10_Witness ==
    /\ pc = "returned" /\ outcome = "ok" /\ Len(task) = MaxMts
    /\ "endpoint" \in DOMAIN task[MaxMts].Config
    /\ task[1].Config # task[MaxMts].Config
    /\ Len(calls) = 2
    /\ calls[2].arg # task[MaxMts].Config.endpoint
    /\ Len(metrics) = MaxMts

====
